---- MODULE Spec2Model ----
(***************************************************************************)
(* fastai/basic_data.py: DeviceDataLoader (a DataLoader bound to a device, *)
(* with batch transforms and the skip-size-one policy) and DataBunch (the  *)
(* train / valid / single / test bundle).                                  *)
(*                                                                         *)
(* Tensors are abstracted to what the code reads of them: a label tensor   *)
(* is its size(0); a batch carries the device it lives on and the ordered  *)
(* list of the transforms applied to it so far (the free interpretation of *)
(* the transform callables: two different orders give different batches).  *)
(* Optional values (None) are sequences of length 0 or 1.                  *)
(***************************************************************************)
EXTENDS Integers, Sequences, FiniteSets, TLC

MaxBatches == 2     \* raw batches a DataLoader yields
MaxTfms == 3        \* length of a transform list
MaxBS == 2          \* batch sizes 1..MaxBS
MaxItems == 2       \* items of a dataset
MaxListLen == 5     \* length of the bundle's transform lists

TfmNames == {"f", "g"}
Devices == {"cuda"}
Sizes == {1, 2}

(***************************************************************************)
(* Batches and labels                                                      *)
(***************************************************************************)
Tensor(n) == [kind |-> "tensor", size0 |-> n, elems |-> <<>>]
ListOf(s) == [kind |-> "list", size0 |-> 0, elems |-> s]

\* a label is a tensor or a list of tensors
Labels == {Tensor(n) : n \in Sizes} \cup {ListOf(<<Tensor(1), Tensor(2)>>)}

RawBatch(i, y) == [x |-> i, y |-> y, dev |-> "host", applied |-> <<>>]

SeqsUpTo(S, n) == UNION {[1..k -> S] : k \in 0..n}

\* the finite sequences of raw batches a DataLoader can yield
RawSeqs == {[i \in 1..Len(ys) |-> RawBatch(i, ys[i])] : ys \in SeqsUpTo(Labels, MaxBatches)}

\* fastai.core.is_listy: the label is a tuple or a list
is_listy(y) == y.kind = "list"

\* fastai.torch_core.to_device: the batch moved to device d
to_device(b, d) == [b EXCEPT !.dev = d]

\* the call f(b) of a transform
ApplyTfm(f, b) == [b EXCEPT !.applied = Append(@, f)]

\* fastai.core.listify of a list: the list it is given, the same object
\* (the loaders of a bundle share the bundle's transform list)
listify(p) == p

(***************************************************************************)
(* DeviceDataLoader                                                        *)
(***************************************************************************)
VARIABLES dl, device, tfms, collate_fn, skip_size1,
          it_pc, it_pos, it_out, ret, exc, rt

lvars == <<dl, device, tfms, collate_fn, skip_size1, it_pc, it_pos, it_out, ret, exc, rt>>

RECURSIVE apply_tfms(_, _)
apply_tfms_reversed(fs, b) ==
    IF fs = <<>> THEN b ELSE ApplyTfm(Head(fs), apply_tfms(Tail(fs), b))

\* for f in listify(self.tfms): b = f(b)
apply_tfms(fs, b) ==
    IF fs = <<>> THEN b ELSE apply_tfms(Tail(fs), ApplyTfm(Head(fs), b))

proc_batch(fs, d, b) == apply_tfms(listify(fs), to_device(b, d))

add_tfm(fs, f) == Append(fs, f)

FirstIndex(fs, f) == CHOOSE i \in 1..Len(fs) : fs[i] = f /\ \A j \in 1..(i-1) : fs[j] # f

remove_all(fs, f) == SelectSeq(fs, LAMBDA g : g # f)

\* list.remove: drops the first matching entry (the caller checks membership)
remove_tfm(fs, f) ==
    LET i == FirstIndex(fs, f) IN SubSeq(fs, 1, i-1) \o SubSeq(fs, i+1, Len(fs))

Contains(fs, f) == \E i \in 1..Len(fs) : fs[i] = f

\* line 47: assert not self.skip_size1 or self.batch_size > 1
iter_assert_allows_one(skip, bs) == ~skip \/ bs >= 1

iter_assert(skip, bs) == ~skip \/ bs > 1

\* line 49: y = b[1][0] if is_listy(b[1]) else b[1]
label_last(b) == IF is_listy(b.y) THEN b.y.elems[Len(b.y.elems)] ELSE b.y

label_of(b) == IF is_listy(b.y) THEN b.y.elems[1] ELSE b.y

\* line 50: if not self.skip_size1 or y.size(0) != 1
yields(skip, b) == ~skip \/ label_of(b).size0 # 1

\* the generator's loop resumed after raw batch number pos: the index of the
\* next raw batch it yields, 0 when the DataLoader runs out first
next_yield(batches, pos, skip) ==
    LET later == {k \in (pos+1)..Len(batches) : yields(skip, batches[k])}
    IN  IF later = {} THEN 0 ELSE CHOOSE k \in later : \A j \in later : k <= j

NoCall == [stage |-> 0, f |-> "f", before |-> <<>>]

\* A caller that reconfigures the loader drops a generator whose body has
\* started; one whose body has not run yet reads the new configuration.
Abandon ==
    IF it_pc = "created"
    THEN UNCHANGED <<it_pc, it_pos, it_out>>
    ELSE it_pc' = "none" /\ it_pos' = 0 /\ it_out' = <<>>

InitLoaderVars ==
    /\ dl \in [batch_size : 1..MaxBS, batches : RawSeqs, collate_fn : {"data_collate"}]
    /\ device \in Devices
    /\ tfms \in SeqsUpTo(TfmNames, 1)
    /\ collate_fn = "data_collate"
    /\ skip_size1 \in BOOLEAN
    /\ it_pc = "none" /\ it_pos = 0 /\ it_out = <<>>
    /\ ret = <<>> /\ exc = "none"
    /\ rt = NoCall

\* batch_size.setter
SetBatchSize(v) ==
    /\ dl' = [dl EXCEPT !.batch_size = v]
    /\ Abandon
    /\ ret' = <<>> /\ exc' = "none"
    /\ UNCHANGED <<device, tfms, collate_fn, skip_size1, rt>>

\* the dataclass field skip_size1 is assigned directly
SetSkipSize1(v) ==
    /\ skip_size1' = v
    /\ Abandon
    /\ ret' = <<>> /\ exc' = "none"
    /\ UNCHANGED <<dl, device, tfms, collate_fn, rt>>

AddTfm(f) ==
    /\ Len(tfms) < MaxTfms
    /\ tfms' = add_tfm(tfms, f)
    /\ rt' = [stage |-> 1, f |-> f, before |-> tfms]
    /\ Abandon
    /\ ret' = <<>> /\ exc' = "none"
    /\ UNCHANGED <<dl, device, collate_fn, skip_size1>>

RemoveTfm(f) ==
    /\ IF Contains(tfms, f)
       THEN /\ tfms' = remove_tfm(tfms, f)
            /\ rt' = IF rt.stage = 1 /\ rt.f = f THEN [rt EXCEPT !.stage = 2] ELSE NoCall
            /\ exc' = "none"
       ELSE /\ exc' = "ValueError"
            /\ rt' = NoCall
            /\ UNCHANGED tfms
    /\ Abandon
    /\ ret' = <<>>
    /\ UNCHANGED <<dl, device, collate_fn, skip_size1>>

ProcBatch(b) ==
    /\ ret' = <<proc_batch(tfms, device, b)>>
    /\ exc' = "none"
    /\ UNCHANGED <<dl, device, tfms, collate_fn, skip_size1, it_pc, it_pos, it_out, rt>>

\* iter(loader): a generator is created, none of its body has run
Iter ==
    /\ it_pc' = "created" /\ it_pos' = 0 /\ it_out' = <<>>
    /\ ret' = <<>> /\ exc' = "none"
    /\ UNCHANGED <<dl, device, tfms, collate_fn, skip_size1, rt>>

\* next(generator): the body runs up to its next yield, its end or its failure
IterNext ==
    /\ it_pc \in {"created", "running"}
    /\ IF it_pc = "created" /\ ~iter_assert(skip_size1, dl.batch_size)
       THEN /\ it_pc' = "failed" /\ exc' = "AssertionError" /\ ret' = <<>>
            /\ UNCHANGED <<it_pos, it_out>>
       ELSE LET k == next_yield(dl.batches, it_pos, skip_size1) IN
            IF k = 0
            THEN /\ it_pc' = "exhausted" /\ exc' = "StopIteration" /\ ret' = <<>>
                 /\ it_pos' = Len(dl.batches)
                 /\ UNCHANGED it_out
            ELSE /\ it_pc' = "running" /\ exc' = "none"
                 /\ it_pos' = k
                 /\ ret' = <<proc_batch(tfms, device, dl.batches[k])>>
                 /\ it_out' = Append(it_out, proc_batch(tfms, device, dl.batches[k]))
    /\ UNCHANGED <<dl, device, tfms, collate_fn, skip_size1, rt>>

SampleBatches == {RawBatch(1, Tensor(1))}

(***************************************************************************)
(* DataBunch                                                               *)
(*                                                                         *)
(* heap holds the DataLoader objects by identity, lists the transform-list *)
(* objects; a DeviceDataLoader is the record of its fields, which refer to *)
(* both by identity.                                                       *)
(***************************************************************************)
VARIABLES heap, lists, train_is_wrapped, self_tfms, self_device,
          train_dl, valid_dl, single_dl, test_dl, self_num_workers,
          ctor_pc, ob_pc, ob_dl, w, ob_entry, ob_ret, bunch_exc

bvars == <<heap, lists, train_is_wrapped, self_tfms, self_device,
           train_dl, valid_dl, single_dl, test_dl, self_num_workers,
           ctor_pc, ob_pc, ob_dl, w, ob_entry, ob_ret, bunch_exc>>

vars == <<lvars, bvars>>

DatasetType == {"Train", "Valid", "Test", "Single"}

WorkerCounts == {0, 2}

ListIds == {"tfms"}

BunchCollate == "bunch_collate"

DefaultDevice == "cpu"

LoaderIds == {"train_arg", "valid_arg", "test_arg", "single"}

\* the batches a DataLoader over n items yields: label tensors of batch_size
\* rows, the last one smaller when batch_size does not divide n
BatchesOf(n, bs) ==
    [i \in 1..((n + bs - 1) \div bs) |->
        RawBatch(i, Tensor(IF i * bs <= n THEN bs ELSE n - (i - 1) * bs))]

DataLoader(ds, bs, nw) ==
    [dataset |-> ds, batch_size |-> bs, num_workers |-> nw, collate_fn |-> "default_collate"]

DeviceDataLoader(id, d, fs, cf, skip) ==
    [dl |-> id, device |-> d, tfms |-> listify(fs), collate_fn |-> cf, skip_size1 |-> skip]

\* DeviceDataLoader.__len__
ddl_len(o) == Len(BatchesOf(heap[o.dl][1].dataset.n, heap[o.dl][1].batch_size))

\* DeviceDataLoader.num_workers (getter)
ddl_num_workers(o) == heap[o.dl][1].num_workers

\* bool(x) of an optional DeviceDataLoader: None is false, and so is an
\* object whose __len__ returns 0
truthy(opt) == opt # <<>> /\ ddl_len(opt[1]) # 0

\* DataBunch.dl: the selected loader, <<>> for None
dl_of(ds_type) ==
    IF ds_type = "Train" THEN train_dl
    ELSE IF ds_type = "Test" THEN test_dl
    ELSE IF ds_type = "Valid" THEN valid_dl
    ELSE single_dl

\* DataBunch.dls
dls ==
    LET res == train_dl \o valid_dl \o single_dl
    IN  IF ~truthy(test_dl) THEN res ELSE res \o test_dl

\* DataBunch.__getattr__ is used only when the instance has no such attribute
bunch_num_workers ==
    IF self_num_workers # <<>> THEN self_num_workers[1] ELSE ddl_num_workers(train_dl[1])

Dataset(name, n) == [name |-> name, n |-> n]

NoEntry == [heap |-> <<>>, num_workers |-> 0]

InitBunchVars ==
    /\ train_is_wrapped \in BOOLEAN
    /\ \E bs \in 1..MaxBS, nw \in WorkerCounts \ {0}, nt \in 0..MaxItems, nv \in {0, MaxItems},
          test \in {<<>>, <<0>>, <<MaxItems>>} :
          heap = [id \in LoaderIds |->
                    IF id = "train_arg"
                    THEN <<[DataLoader(Dataset("train_ds", nt), bs, nw) EXCEPT
                            !.collate_fn = IF train_is_wrapped THEN "data_collate" ELSE @]>>
                    ELSE IF id = "valid_arg" THEN <<DataLoader(Dataset("valid_ds", nv), bs, nw)>>
                    ELSE IF id = "test_arg" /\ test # <<>>
                    THEN <<DataLoader(Dataset("test_ds", test[1]), bs, nw)>>
                    ELSE <<>>]
    /\ lists \in [ListIds -> SeqsUpTo(TfmNames, 1)]
    /\ self_tfms = <<>> /\ self_device = <<>>
    /\ train_dl = <<>> /\ valid_dl = <<>> /\ single_dl = <<>> /\ test_dl = <<>>
    /\ self_num_workers = <<>>
    /\ ctor_pc = "start"
    /\ ob_pc = "idle" /\ ob_dl = <<>> /\ w = <<>> /\ ob_entry = NoEntry /\ ob_ret = <<>>
    /\ bunch_exc = "none"

\* _create_dl (lines 71-72) with DeviceDataLoader.__post_init__ (lines 19-21):
\* the wrapped DataLoader's collate_fn is overwritten
create_dl(h, id) == [h EXCEPT ![id] = <<[@[1] EXCEPT !.collate_fn = BunchCollate]>>]

new_ddl(id, skip) == <<DeviceDataLoader(id, self_device[1], self_tfms[1], BunchCollate, skip)>>

ctor_rest == <<train_is_wrapped, self_num_workers, ob_pc, ob_dl, w, ob_entry, ob_ret>>

\* lines 68-70 without the assertion
CtorEnterUnchecked ==
    /\ ctor_pc = "start"
    /\ self_tfms' = <<listify("tfms")>>
    /\ self_device' = <<DefaultDevice>>
    /\ ctor_pc' = "train" /\ bunch_exc' = "none"
    /\ UNCHANGED <<heap, lists, train_dl, valid_dl, single_dl, test_dl, ctor_rest>>

\* lines 68-70
CtorEnter ==
    /\ ctor_pc = "start"
    /\ self_tfms' = <<listify("tfms")>>
    /\ self_device' = <<DefaultDevice>>
    /\ IF train_is_wrapped
       THEN ctor_pc' = "failed" /\ bunch_exc' = "AssertionError"
       ELSE ctor_pc' = "train" /\ bunch_exc' = "none"
    /\ UNCHANGED <<heap, lists, train_dl, valid_dl, single_dl, test_dl, ctor_rest>>

\* line 73
CtorTrain ==
    /\ ctor_pc = "train"
    /\ heap' = create_dl(heap, "train_arg")
    /\ train_dl' = new_ddl("train_arg", TRUE)
    /\ ctor_pc' = "valid"
    /\ UNCHANGED <<lists, self_tfms, self_device, valid_dl, single_dl, test_dl, bunch_exc, ctor_rest>>

\* line 74
CtorValid ==
    /\ ctor_pc = "valid"
    /\ heap' = create_dl(heap, "valid_arg")
    /\ valid_dl' = new_ddl("valid_arg", FALSE)
    /\ ctor_pc' = "single"
    /\ UNCHANGED <<lists, self_tfms, self_device, train_dl, single_dl, test_dl, bunch_exc, ctor_rest>>

single_batch_size_of_valid == heap["valid_arg"][1].batch_size

single_batch_size == 1

\* line 75: DataLoader(valid_dl.dataset, batch_size=1, num_workers=0)
CtorSingle ==
    /\ ctor_pc = "single"
    /\ heap' = create_dl([heap EXCEPT !["single"] =
                            <<DataLoader(heap["valid_arg"][1].dataset, single_batch_size, 0)>>],
                         "single")
    /\ single_dl' = new_ddl("single", FALSE)
    /\ ctor_pc' = "test"
    /\ UNCHANGED <<lists, self_tfms, self_device, train_dl, valid_dl, test_dl, bunch_exc, ctor_rest>>

\* lines 76-77
CtorTest ==
    /\ ctor_pc = "test"
    /\ IF heap["test_arg"] # <<>>
       THEN heap' = create_dl(heap, "test_arg") /\ test_dl' = new_ddl("test_arg", FALSE)
       ELSE UNCHANGED <<heap, test_dl>>
    /\ ctor_pc' = "done"
    /\ UNCHANGED <<lists, self_tfms, self_device, train_dl, valid_dl, single_dl, bunch_exc, ctor_rest>>

ready == ctor_pc = "done" /\ ob_pc # "fetch"

\* the call frame of a finished one_batch is gone
LeaveOneBatch == ob_pc' = "idle" /\ ob_dl' = <<>> /\ w' = <<>> /\ ob_entry' = NoEntry /\ ob_ret' = <<>>

ops_rest == <<train_is_wrapped, self_tfms, self_device, train_dl, valid_dl, single_dl, test_dl, ctor_pc>>

RECURSIVE add_to_each(_, _, _)
\* for dl in self.dls: dl.add_tfm(tfm)
add_to_each(ls, loaders, t) ==
    IF loaders = <<>> THEN ls
    ELSE add_to_each([ls EXCEPT ![Head(loaders).tfms] = add_tfm(@, t)], Tail(loaders), t)

\* DataBunch.add_tfm
BunchAddTfm(t) ==
    /\ ready
    /\ \A r \in ListIds : Len(lists[r]) + Len(dls) <= MaxListLen
    /\ lists' = add_to_each(lists, dls, t)
    /\ bunch_exc' = "none"
    /\ LeaveOneBatch
    /\ UNCHANGED <<heap, self_num_workers, ops_rest>>

\* DeviceDataLoader.num_workers (setter) on one of the bundle's loaders
SetNumWorkers(ds_type, v) ==
    /\ ready
    /\ dl_of(ds_type) # <<>>
    /\ heap' = [heap EXCEPT ![dl_of(ds_type)[1].dl] = <<[@[1] EXCEPT !.num_workers = v]>>]
    /\ bunch_exc' = "none"
    /\ LeaveOneBatch
    /\ UNCHANGED <<lists, self_num_workers, ops_rest>>

\* lines 113-115: dl = self.dl(ds_type); w = self.num_workers; self.num_workers = 0
OneBatchEnter(ds_type) ==
    /\ ready
    /\ ob_dl' = dl_of(ds_type)
    /\ w' = <<bunch_num_workers>>
    /\ self_num_workers' = <<0>>
    /\ ob_entry' = [heap |-> heap, num_workers |-> bunch_num_workers]
    /\ ob_pc' = "fetch" /\ ob_ret' = <<>> /\ bunch_exc' = "none"
    /\ UNCHANGED <<heap, lists, ops_rest>>

\* next(iter(dl)) of line 116: the exception it raises, "none" when it yields
fetch_exc(opt) ==
    IF opt = <<>> THEN "TypeError"
    ELSE LET o == opt[1]
             L == heap[o.dl][1]
         IN  IF ~iter_assert(o.skip_size1, L.batch_size) THEN "AssertionError"
             ELSE IF next_yield(BatchesOf(L.dataset.n, L.batch_size), 0, o.skip_size1) = 0
                  THEN "StopIteration"
                  ELSE "none"

fetch_batch(o) ==
    LET L == heap[o.dl][1]
        bs == BatchesOf(L.dataset.n, L.batch_size)
    IN  proc_batch(lists[o.tfms], o.device, bs[next_yield(bs, 0, o.skip_size1)])

\* lines 116-117 without the finally clause
OneBatchFetchNoRestore ==
    /\ ctor_pc = "done" /\ ob_pc = "fetch"
    /\ bunch_exc' = fetch_exc(ob_dl)
    /\ IF fetch_exc(ob_dl) = "none"
       THEN ob_pc' = "returned" /\ ob_ret' = <<fetch_batch(ob_dl[1])>>
       ELSE ob_pc' = "raised" /\ ob_ret' = <<>>
    /\ UNCHANGED <<heap, lists, self_num_workers, ob_dl, w, ob_entry, ops_rest>>

\* lines 116-123: the fetch, the finally clause, and the return or the raise
OneBatchFetch ==
    /\ ctor_pc = "done" /\ ob_pc = "fetch"
    /\ bunch_exc' = fetch_exc(ob_dl)
    /\ IF fetch_exc(ob_dl) = "none"
       THEN ob_pc' = "returned" /\ ob_ret' = <<fetch_batch(ob_dl[1])>>
       ELSE ob_pc' = "raised" /\ ob_ret' = <<>>
    /\ self_num_workers' = w
    /\ UNCHANGED <<heap, lists, ob_dl, w, ob_entry, ops_rest>>

(***************************************************************************)
(* Specifications                                                          *)
(***************************************************************************)
IdleBunchVars ==
    /\ train_is_wrapped = FALSE
    /\ heap = [id \in LoaderIds |-> <<>>]
    /\ lists = [r \in ListIds |-> <<>>]
    /\ self_tfms = <<>> /\ self_device = <<>>
    /\ train_dl = <<>> /\ valid_dl = <<>> /\ single_dl = <<>> /\ test_dl = <<>>
    /\ self_num_workers = <<>>
    /\ ctor_pc = "start"
    /\ ob_pc = "idle" /\ ob_dl = <<>> /\ w = <<>> /\ ob_entry = NoEntry /\ ob_ret = <<>>
    /\ bunch_exc = "none"

IdleLoaderVars ==
    /\ dl = [batch_size |-> 1, batches |-> <<>>, collate_fn |-> "data_collate"]
    /\ device = "cpu"
    /\ tfms = <<>>
    /\ collate_fn = "data_collate"
    /\ skip_size1 = FALSE
    /\ it_pc = "none" /\ it_pos = 0 /\ it_out = <<>>
    /\ ret = <<>> /\ exc = "none"
    /\ rt = NoCall

\* one DeviceDataLoader and its callers
Init == InitLoaderVars /\ IdleBunchVars

Next ==
    \/ \E v \in 1..MaxBS : SetBatchSize(v) /\ UNCHANGED bvars
    \/ \E v \in BOOLEAN : SetSkipSize1(v) /\ UNCHANGED bvars
    \/ \E f \in TfmNames : AddTfm(f) /\ UNCHANGED bvars
    \/ \E f \in TfmNames : RemoveTfm(f) /\ UNCHANGED bvars
    \/ \E b \in SampleBatches : ProcBatch(b) /\ UNCHANGED bvars
    \/ Iter /\ UNCHANGED bvars
    \/ IterNext /\ UNCHANGED bvars

Spec == Init /\ [][Next]_vars

\* one DataBunch, from its construction on
InitBunch == InitBunchVars /\ IdleLoaderVars

NextBunch ==
    \/ CtorEnter /\ UNCHANGED lvars
    \/ CtorTrain /\ UNCHANGED lvars
    \/ CtorValid /\ UNCHANGED lvars
    \/ CtorSingle /\ UNCHANGED lvars
    \/ CtorTest /\ UNCHANGED lvars
    \/ \E t \in TfmNames : BunchAddTfm(t) /\ UNCHANGED lvars
    \/ \E d \in DatasetType, v \in WorkerCounts : SetNumWorkers(d, v) /\ UNCHANGED lvars
    \/ \E d \in DatasetType : OneBatchEnter(d) /\ UNCHANGED lvars
    \/ OneBatchFetch /\ UNCHANGED lvars

SpecBunch == InitBunch /\ [][NextBunch]_vars

(***************************************************************************)
(* Properties of DeviceDataLoader, checked under Spec                      *)
(***************************************************************************)
RawBatchUniverse == {RawBatch(1, y) : y \in Labels}

RowCount(y) == IF y.kind = "list" THEN Head(y.elems).size0 ELSE y.size0

ExpectedOut ==
    LET kept == SelectSeq(dl.batches, LAMBDA b : RowCount(b.y) # 1)
    IN  [i \in 1..Len(kept) |-> proc_batch(tfms, device, kept[i])]

\* C1: with skip_size1 set and batch size > 1, the batches an iteration has
\* yielded are, in order, proc_batch of the raw batches whose effective label
\* row count is not 1; an iteration run to its end has yielded all of them.
C1_SkipFilter ==
    (skip_size1 /\ dl.batch_size > 1 /\ it_pc \in {"running", "exhausted"}) =>
        /\ Len(it_out) <= Len(ExpectedOut)
        /\ it_out = SubSeq(ExpectedOut, 1, Len(it_out))
        /\ it_pc = "exhausted" => it_out = ExpectedOut

C1_Witness ==
    /\ skip_size1 /\ dl.batch_size > 1 /\ it_pc = "exhausted"
    /\ Len(it_out) = 1 /\ Len(dl.batches) = 2
    /\ tfms # <<>>

FromFirstOnAll(fs, f) ==
    \A i \in 1..Len(fs) : \A j \in i..Len(fs) : fs[i] = f => fs[j] = f

SameProcBatch(fs, gs) ==
    \A b \in RawBatchUniverse : proc_batch(fs, device, b) = proc_batch(gs, device, b)

\* C4 as stated: after add_tfm(f) then remove_tfm(f), proc_batch gives for
\* every batch what it gave before the two calls, whatever the list held.
C4_RoundTripAnyList == rt.stage = 2 => SameProcBatch(tfms, rt.before)

\* C4 amended: after add_tfm(f) then remove_tfm(f), proc_batch gives for every
\* batch what it gave before the two calls, provided the list before the calls
\* held no f, or held nothing but f from its first f on.
C4_RoundTrip ==
    (rt.stage = 2 /\ FromFirstOnAll(rt.before, rt.f)) => SameProcBatch(tfms, rt.before)

C4_Witness ==
    /\ rt.stage = 2
    /\ Len(rt.before) = 2 /\ rt.before[1] # rt.f /\ rt.before[2] = rt.f
    /\ tfms = rt.before

\* C5: the first next() of an iteration started with skip_size1 set and a
\* batch size of 1 or less raises the assertion error; nothing has been
\* yielded and no raw batch has been taken from the DataLoader.
C5_FailsAtFirstNext ==
    [][(it_pc = "created" /\ it_pc' # "created"
            /\ skip_size1 /\ dl.batch_size <= 1) =>
        (it_pc' = "failed" /\ exc' = "AssertionError"
            /\ ret' = <<>> /\ it_out' = <<>> /\ it_pos' = 0)]_vars

C5_Witness ==
    /\ it_pc = "failed" /\ exc = "AssertionError"
    /\ skip_size1 /\ dl.batch_size = 1
    /\ \E k \in 1..Len(dl.batches) : RowCount(dl.batches[k].y) # 1

RECURSIVE Composed(_, _, _)
\* fn(...f1(device_transfer(b))...)
Composed(fs, d, b) ==
    IF fs = <<>> THEN [b EXCEPT !.dev = d]
    ELSE ApplyTfm(fs[Len(fs)], Composed(SubSeq(fs, 1, Len(fs) - 1), d, b))

\* C7: proc_batch(b) is the transforms applied in registration order to the
\* batch moved to the device, and a proc_batch call leaves the transform
\* list, the device and the skip flag as they were.
C7_ProcBatchOrder ==
    [][/\ \A b \in RawBatchUniverse : proc_batch(tfms, device, b) = Composed(tfms, device, b)
       /\ \A b \in SampleBatches :
            ProcBatch(b) => /\ ret' = <<Composed(tfms, device, b)>>
                            /\ UNCHANGED <<tfms, device, skip_size1>>]_vars

C7_Witness ==
    /\ it_pc = "none" /\ ret # <<>> /\ exc = "none"
    /\ Len(tfms) = 2 /\ tfms[1] # tfms[2]
    /\ ret[1].applied = tfms /\ ret[1].dev = device

(***************************************************************************)
(* Properties of DataBunch, checked under SpecBunch                        *)
(***************************************************************************)
\* C2: while one_batch fetches, the worker count of the selected loader is 0.
C2_FetchWithoutWorkers ==
    (ob_pc = "fetch" /\ ob_dl # <<>>) => ddl_num_workers(ob_dl[1]) = 0

WorkersOf(h, opt) == IF opt = <<>> THEN <<>> ELSE <<h[opt[1].dl][1].num_workers>>

\* C3: when one_batch has returned or raised, every loader of the bundle has
\* the worker count it had when the call began, and so has the bundle.
C3_WorkersRestored ==
    ob_pc \in {"returned", "raised"} =>
        /\ \A d \in DatasetType : WorkersOf(heap, dl_of(d)) = WorkersOf(ob_entry.heap, dl_of(d))
        /\ bunch_num_workers = ob_entry.num_workers

C3_Witness ==
    /\ ob_pc = "raised" /\ bunch_exc = "StopIteration"
    /\ ob_entry.num_workers = 2
    /\ ddl_num_workers(train_dl[1]) = 0

\* C6: dls is [train, valid, single], followed by the test loader exactly
\* when a test loader was supplied, whatever its length.
C6_DlsListsTest ==
    ctor_pc = "done" =>
        dls = IF heap["test_arg"] # <<>>
              THEN train_dl \o valid_dl \o single_dl \o test_dl
              ELSE train_dl \o valid_dl \o single_dl

\* C8: a construction whose train argument is a DeviceDataLoader fails with
\* the assertion error before any loader is created and before the collate
\* function of any DataLoader is overwritten.
C8_WrappedTrainRejected ==
    (train_is_wrapped /\ ctor_pc # "start") =>
        /\ ctor_pc = "failed" /\ bunch_exc = "AssertionError"
        /\ train_dl = <<>> /\ valid_dl = <<>> /\ single_dl = <<>> /\ test_dl = <<>>
        /\ heap["single"] = <<>>
        /\ \A id \in LoaderIds : heap[id] # <<>> => heap[id][1].collate_fn # BunchCollate

C8_Witness == train_is_wrapped /\ ctor_pc = "failed" /\ heap["test_arg"] # <<>>

\* C9: once the bundle is constructed, dl(Single) is a loader over the
\* validation loader's dataset with batch size 1.
C9_SingleOverValid ==
    ctor_pc = "done" =>
        /\ dl_of("Single") # <<>>
        /\ heap[dl_of("Single")[1].dl][1].dataset = heap[valid_dl[1].dl][1].dataset
        /\ heap[dl_of("Single")[1].dl][1].dataset.name = "valid_ds"
        /\ heap[dl_of("Single")[1].dl][1].batch_size = 1

C9_Witness ==
    /\ ctor_pc = "done" /\ ob_pc = "returned" /\ ob_dl = single_dl
    /\ heap["valid_arg"][1].batch_size > 1
    /\ Len(lists["tfms"]) > 1

Count(fs, t) == Cardinality({i \in 1..Len(fs) : fs[i] = t})

\* C10: one DataBunch.add_tfm(t) raises the number of occurrences of t in the
\* transform list of each loader in dls by exactly 1.
C10_AddTfmOnce ==
    [][\A t \in TfmNames :
        BunchAddTfm(t) =>
            \A i \in 1..Len(dls) :
                Count(lists'[dls[i].tfms], t) = Count(lists[dls[i].tfms], t) + 1]_vars

====
